---- MODULE Spec2Model ----
(***************************************************************************)
(* Model of the quadtree renderer of src/src/main.rs: the recursive        *)
(* procedure `quadtree` (average colour of a rectangle, threshold-gated    *)
(* border, subdivision into four quadrants) run over an explicit call      *)
(* stack, and the accumulation loop of its averaging step on large         *)
(* regions.                                                                *)
(***************************************************************************)
EXTENDS Integers, Naturals, Sequences, FiniteSets, TLC

VARIABLES
    input,            \* the decoded RGBA bytes, index 0 .. len-1
    output,           \* the output bytes, same length
    buffer_width,     \* parameter buffer_width
    color_threshold,  \* parameter color_threshold
    rect_min_size,    \* parameter rect_min_size
    stack,            \* call stack of quadtree, the last element is the running call
    pc,               \* "run", "done", "panic" (index out of range / unwrap), "overflow" (stack exhausted)
    log,              \* history: one record per executed call body, in execution order
    writer,           \* history: per pixel, position in log of the call that wrote it last (0: none)
    loop              \* the averaging loop on a large region (specification SumSpec)

vars == <<input, output, buffer_width, color_threshold, rect_min_size,
          stack, pc, log, writer, loop>>

(* ---------------------------- bounds ----------------------------------- *)
MaxWidth == 5
MaxHeight == 5
MaxOrigin == 1
MaxMinSize == 1
StackLimit == 6

(* ------------------------- program constants --------------------------- *)
Threshold == 280
BytesPerPixel == 4
Alpha == 255

\* Option<u32>::None, and the abort of a failed unwrap / division
None == -1
Panic == -2

(* ----------------------------- inputs ---------------------------------- *)
Black == <<0, 0, 0>>
Edge == <<100, 90, 90>>
Bright == <<200, 100, 50>>
White == <<255, 255, 255>>
Palette == {Black, Edge, Bright}
Kinds == {"cols", "rows"}

\* image.to_rgba8().to_vec(): row-major, 4 bytes per pixel, r g b a
Image(w, h, kind, cA, cB) ==
    [i \in 0 .. (w * h * BytesPerPixel - 1) |->
        LET p == i \div BytesPerPixel
            c == i % BytesPerPixel
            x == p % w
            y == p \div w
            sel == IF kind = "cols" THEN x % 2 = 0 ELSE y % 2 = 0
            col == IF sel THEN cA ELSE cB
        IN IF c = 3 THEN Alpha ELSE col[c + 1]]

BufLen(buf) == Cardinality(DOMAIN buf)
Height == BufLen(output) \div (buffer_width * BytesPerPixel)

(* --------------------------- quadtree ---------------------------------- *)
Index(y, x) == y * buffer_width * BytesPerPixel + x * BytesPerPixel

\* length of the Rust range a .. b
RangeLen(a, b) == IF b > a THEN b - a ELSE 0

\* the pixels visited by `for y in y1..y2 { for x in x1..x2 {` in that order
SampleIndices(f) ==
    LET nx == RangeLen(f.x1, f.x2)
        ny == RangeLen(f.y1, f.y2)
    IN [k \in 1 .. (nx * ny) |->
            Index(f.y1 + ((k - 1) \div nx), f.x1 + ((k - 1) % nx))]

RECURSIVE SumChannel(_, _, _, _)
SumChannel(buf, idx, k, c) ==
    IF k > Len(idx) THEN 0
    ELSE buf[idx[k] + c] + SumChannel(buf, idx, k + 1, c)

checked_div(a, b) == IF b = 0 THEN None ELSE a \div b

\* variant: unwrap() in place of unwrap_or_default()
unwrap_or_default_Unwrap(o) == IF o = None THEN Panic ELSE o

unwrap_or_default(o) == IF o = None THEN 0 ELSE o

\* lines 74-90: <<r, g, b>> after the divisions
Average(buf, f) ==
    LET idx == SampleIndices(f)
        count == Len(idx)
    IN [c \in 1 .. 3 |->
            unwrap_or_default(checked_div(SumChannel(buf, idx, 1, c - 1), count))]

\* variant: >= in place of >
AboveThreshold_Ge(avg) == avg[1] + avg[2] + avg[3] >= color_threshold

\* line 101
AboveThreshold(avg) == avg[1] + avg[2] + avg[3] > color_threshold

\* variant: the bytes stored in the order a r g b
set_color_AlphaFirst(out, index, r, g, b, a) ==
    [out EXCEPT ![index + 3] = b % 256,
                ![index + 2] = g % 256,
                ![index + 1] = r % 256,
                ![index] = a % 256]

\* variant: the bytes stored in the order r g b a
set_color_RedFirst(out, index, r, g, b, a) ==
    [out EXCEPT ![index + 3] = a % 256,
                ![index + 2] = b % 256,
                ![index + 1] = g % 256,
                ![index] = r % 256]

\* the closure set_color: index+3 <- a, index+2 <- r, index+1 <- g, index <- b
set_color(out, index, r, g, b, a) ==
    [out EXCEPT ![index + 3] = a % 256,
                ![index + 2] = r % 256,
                ![index + 1] = g % 256,
                ![index] = b % 256]

\* variant: only the edges through (x1, y1) are drawn
BorderIndices_NearOnly(f) ==
    LET nx == RangeLen(f.x1, f.x2)
        ny == RangeLen(f.y1, f.y2)
        horiz == [k \in 1 .. (2 * nx) |-> Index(f.y1, f.x1 + ((k - 1) \div 2))]
        vert == [k \in 1 .. (2 * ny) |-> Index(f.y1 + ((k - 1) \div 2), f.x1)]
    IN horiz \o vert

\* variant: the far edges drawn one row / column beyond y2 and x2
BorderIndices_Outside(f) ==
    LET nx == RangeLen(f.x1, f.x2)
        ny == RangeLen(f.y1, f.y2)
        horiz == [k \in 1 .. (2 * nx) |->
                    LET x == f.x1 + ((k - 1) \div 2)
                    IN IF k % 2 = 1 THEN Index(f.y1, x) ELSE Index(f.y2 + 1, x)]
        vert == [k \in 1 .. (2 * ny) |->
                    LET y == f.y1 + ((k - 1) \div 2)
                    IN IF k % 2 = 1 THEN Index(y, f.x1) ELSE Index(y, f.x2 + 1)]
    IN horiz \o vert

\* the indices passed to set_color by the two border loops, in order
BorderIndices(f) ==
    LET nx == RangeLen(f.x1, f.x2)
        ny == RangeLen(f.y1, f.y2)
        horiz == [k \in 1 .. (2 * nx) |->
                    LET x == f.x1 + ((k - 1) \div 2)
                    IN IF k % 2 = 1 THEN Index(f.y1, x) ELSE Index(f.y2, x)]
        vert == [k \in 1 .. (2 * ny) |->
                    LET y == f.y1 + ((k - 1) \div 2)
                    IN IF k % 2 = 1 THEN Index(y, f.x1) ELSE Index(y, f.x2)]
    IN horiz \o vert

RECURSIVE DrawBorder(_, _, _, _)
DrawBorder(out, idx, k, avg) ==
    IF k > Len(idx) THEN out
    ELSE DrawBorder(set_color(out, idx[k], avg[1], avg[2], avg[3], Alpha),
                    idx, k + 1, avg)

\* every byte index the body of a call reads from input or writes to output
ReadSet(f) ==
    LET idx == SampleIndices(f)
    IN {idx[k] + c : k \in DOMAIN idx, c \in 0 .. 2}

WriteSet(f, avg) ==
    LET idx == BorderIndices(f)
    IN IF AboveThreshold(avg)
       THEN {idx[k] + c : k \in DOMAIN idx, c \in 0 .. 3}
       ELSE {}

abs_diff(a, b) == IF a > b THEN a - b ELSE b - a

\* variant: >= in place of >
ShouldSubdivide_Ge(f) ==
    abs_diff(f.x1, f.x2) >= rect_min_size /\ abs_diff(f.y1, f.y2) >= rect_min_size

\* variant: || in place of &&
ShouldSubdivide_Or(f) ==
    abs_diff(f.x1, f.x2) > rect_min_size \/ abs_diff(f.y1, f.y2) > rect_min_size

\* line 118
ShouldSubdivide(f) ==
    abs_diff(f.x1, f.x2) > rect_min_size /\ abs_diff(f.y1, f.y2) > rect_min_size

\* lines 120-121
Mid(a, b) == (a + b) \div 2

\* variant: the top-right quadrant is visited before the top-left one
Child_RightFirst(f, k) ==
    LET mid_x == Mid(f.x1, f.x2)
        mid_y == Mid(f.y1, f.y2)
        r == CASE k = 2 -> <<f.x1, f.y1, mid_x, mid_y>>
               [] k = 1 -> <<mid_x, f.y1, f.x2, mid_y>>
               [] k = 3 -> <<f.x1, mid_y, mid_x, f.y2>>
               [] OTHER -> <<mid_x, mid_y, f.x2, f.y2>>
    IN [x1 |-> r[1], y1 |-> r[2], x2 |-> r[3], y2 |-> r[4],
        stage |-> 0, path |-> Append(f.path, k)]

\* lines 123-126: the k-th recursive call of f
Child(f, k) ==
    LET mid_x == Mid(f.x1, f.x2)
        mid_y == Mid(f.y1, f.y2)
        r == CASE k = 1 -> <<f.x1, f.y1, mid_x, mid_y>>
               [] k = 2 -> <<mid_x, f.y1, f.x2, mid_y>>
               [] k = 3 -> <<f.x1, mid_y, mid_x, f.y2>>
               [] OTHER -> <<mid_x, mid_y, f.x2, f.y2>>
    IN [x1 |-> r[1], y1 |-> r[2], x2 |-> r[3], y2 |-> r[4],
        stage |-> 0, path |-> Append(f.path, k)]

Top == stack[Len(stack)]
SetTopStage(s) == [stack EXCEPT ![Len(stack)].stage = s]

Idle == [status |-> "idle"]

(* ------------------------------ Spec ----------------------------------- *)
\* before main has loaded the image
Init ==
    /\ input = <<>>
    /\ output = <<>>
    /\ buffer_width = 0
    /\ color_threshold = 0
    /\ rect_min_size = 0
    /\ stack = <<>>
    /\ pc = "start"
    /\ log = <<>>
    /\ writer = <<>>
    /\ loop = Idle

\* main, lines 25-38, generalised to every call that meets the preconditions
\* of quadtree: the image, the zero-filled output and the top-level call
MainOn(colours, thresholds) ==
    /\ pc = "start" /\ loop = Idle
    /\ pc' = "run"
    /\ \E w \in 1 .. MaxWidth, h \in 1 .. MaxHeight, a \in 0 .. MaxOrigin :
         \E ax \in {a} \cap (0 .. (w - 1)), ay \in {a} \cap (0 .. (h - 1)) :
           \E bx \in ax .. (w - 1), by \in ay .. (h - 1) :
             /\ buffer_width' = w
             /\ stack' = <<[x1 |-> ax, y1 |-> ay, x2 |-> bx, y2 |-> by,
                            stage |-> 0, path |-> <<>>]>>
             /\ output' = [i \in 0 .. (w * h * BytesPerPixel - 1) |-> 0]
             /\ writer' = [p \in 0 .. (w * h - 1) |-> 0]
             /\ \E kind \in Kinds, cA \in colours, cB \in colours :
                  /\ (cA = cB) => (kind = "cols")
                  /\ cA[1] <= cB[1]
                  /\ input' = Image(w, h, kind, cA, cB)
    /\ color_threshold' \in thresholds
    /\ rect_min_size' \in 0 .. MaxMinSize
    /\ log' = <<>>
    /\ UNCHANGED loop

Main == MainOn(Palette, {0, Threshold})

\* main with the threshold it passes (280) on a picture of one colour
MainUniform == MainOn({Bright}, {Threshold})

\* lines 74-118: the average, the border and the subdivision test of one call
Body ==
    /\ pc = "run" /\ stack # <<>> /\ Top.stage = 0
    /\ \E avg \in {Average(input, Top)} :
         \E written \in {WriteSet(Top, avg)} :
           IF \/ \E c \in 1 .. 3 : avg[c] = Panic
              \/ ~ (ReadSet(Top) \subseteq DOMAIN input)
              \/ ~ (written \subseteq DOMAIN output)
           THEN /\ pc' = "panic"
                /\ UNCHANGED <<output, stack, log, writer>>
           ELSE /\ pc' = pc
                /\ stack' = SetTopStage(IF ShouldSubdivide(Top) THEN 1 ELSE 5)
                /\ log' = Append(log, [x1 |-> Top.x1, y1 |-> Top.y1,
                                       x2 |-> Top.x2, y2 |-> Top.y2,
                                       path |-> Top.path, avg |-> avg,
                                       drew |-> written # {}])
                /\ output' = IF AboveThreshold(avg)
                             THEN DrawBorder(output, BorderIndices(Top), 1, avg)
                             ELSE output
                /\ writer' = [p \in DOMAIN writer |->
                                IF p * BytesPerPixel \in written
                                THEN Len(log) + 1 ELSE writer[p]]
    /\ UNCHANGED <<input, buffer_width, color_threshold, rect_min_size, loop>>

\* lines 123-126: the running call makes its next recursive call
Call ==
    /\ pc = "run" /\ stack # <<>> /\ Top.stage \in 1 .. 4
    /\ Len(stack) < StackLimit
    /\ stack' = Append(SetTopStage(Top.stage + 1), Child(Top, Top.stage))
    /\ UNCHANGED <<input, output, buffer_width, color_threshold, rect_min_size,
                   pc, log, writer, loop>>

\* a recursive call that finds the stack exhausted: the process aborts
StackOverflow ==
    /\ pc = "run" /\ stack # <<>> /\ Top.stage \in 1 .. 4
    /\ Len(stack) >= StackLimit
    /\ pc' = "overflow"
    /\ UNCHANGED <<input, output, buffer_width, color_threshold, rect_min_size,
                   stack, log, writer, loop>>

\* line 128: the running call returns
Return ==
    /\ pc = "run" /\ stack # <<>> /\ Top.stage = 5
    /\ stack' = SubSeq(stack, 1, Len(stack) - 1)
    /\ pc' = IF Len(stack) = 1 THEN "done" ELSE "run"
    /\ UNCHANGED <<input, output, buffer_width, color_threshold, rect_min_size,
                   log, writer, loop>>

Next == Main \/ Body \/ Call \/ StackOverflow \/ Return

Spec == Init /\ [][Next]_vars

\* The run on pictures of one colour: the subdivision test and the calls
\* read only the rectangle and rect_min_size. The recursion is synchronous:
\* a call that can take a step takes it.
TermNext == MainUniform \/ Body \/ Call \/ StackOverflow \/ Return

TermSpec == Init /\ [][TermNext]_vars /\ WF_vars(TermNext)

(* ----------------------------- SumSpec --------------------------------- *)
(* The accumulation of lines 74-87 on the top-level call of main over a    *)
(* large picture of one colour: x1 = y1 = 0, x2 = width - 1 (nx columns    *)
(* sampled), y2 = height - 1 (ny rows sampled).  A u32 accumulator is the   *)
(* pair <<high, low>> of its 16-bit halves; the high half is kept exact so  *)
(* that a sum beyond 2^32 - 1 shows as high >= Half.                        *)
Half == 65536
BigRects == {<<4096, 4096>>, <<4105, 4105>>, <<65536, 257>>, <<65536, 258>>}
BigColours == {Bright, White}
Builds == {"debug", "release"}

\* acc + v without the width limit, v < 2^31
Add(acc, v) == <<acc[1] + ((acc[2] + v) \div Half), (acc[2] + v) % Half>>
Overflows(acc) == acc[1] >= Half
\* the wrapping u32 value of a release build
Wrap(acc) == <<acc[1] % Half, acc[2]>>

SumMain ==
    /\ pc = "start" /\ loop = Idle
    /\ \E rect \in BigRects, col \in BigColours, build \in Builds :
          loop' = [status |-> "loop", build |-> build, nx |-> rect[1],
                   ny |-> rect[2], col |-> col, y |-> 0,
                   r |-> <<0, 0>>, g |-> <<0, 0>>, b |-> <<0, 0>>,
                   count |-> <<0, 0>>, wrapped |-> FALSE]
    /\ UNCHANGED <<input, output, buffer_width, color_threshold, rect_min_size,
                   stack, pc, log, writer>>

\* one iteration of `for y in y1..y2`: the nx iterations of the inner loop,
\* each adding the same three channel values and 1 to count
SumRow ==
    /\ loop.status = "loop" /\ loop.y < loop.ny
    /\ LET r == Add(loop.r, loop.nx * loop.col[1])
           g == Add(loop.g, loop.nx * loop.col[2])
           b == Add(loop.b, loop.nx * loop.col[3])
           n == Add(loop.count, loop.nx)
           over == Overflows(r) \/ Overflows(g) \/ Overflows(b) \/ Overflows(n)
       IN IF over /\ loop.build = "debug"
          THEN loop' = [loop EXCEPT !.status = "panic"]
          ELSE loop' = [loop EXCEPT !.y = loop.y + 1,
                                    !.r = Wrap(r), !.g = Wrap(g), !.b = Wrap(b),
                                    !.count = Wrap(n),
                                    !.wrapped = loop.wrapped \/ over]
    /\ UNCHANGED <<input, output, buffer_width, color_threshold, rect_min_size,
                   stack, pc, log, writer>>

\* the loops are left with the sums complete
SumEnd ==
    /\ loop.status = "loop" /\ loop.y = loop.ny
    /\ loop' = [loop EXCEPT !.status = "summed"]
    /\ UNCHANGED <<input, output, buffer_width, color_threshold, rect_min_size,
                   stack, pc, log, writer>>

SumNext == SumMain \/ SumRow \/ SumEnd

SumSpec == Init /\ [][SumNext]_vars

(* ----------------------------- properties ------------------------------ *)
XExtent(f) == f.x2 - f.x1
YExtent(f) == f.y2 - f.y1
Degenerate(f) == f.x1 = f.x2 \/ f.y1 = f.y2
InBuffer(f) ==
    /\ 0 <= f.x1 /\ f.x1 <= f.x2 /\ f.x2 < buffer_width
    /\ 0 <= f.y1 /\ f.y1 <= f.y2 /\ f.y2 < Height

\* C1: with rect_min_size >= 1, every recursive call is made on a rectangle
\* whose x-extent and y-extent are both non-negative and strictly smaller
\* than its caller's, and the recursion never exhausts the stack.
C1_ExtentsShrink ==
    rect_min_size >= 1 =>
        /\ pc # "overflow"
        /\ \A i \in 2 .. Len(stack) :
              /\ 0 <= XExtent(stack[i]) /\ XExtent(stack[i]) < XExtent(stack[i - 1])
              /\ 0 <= YExtent(stack[i]) /\ YExtent(stack[i]) < YExtent(stack[i - 1])

C1_Witness == rect_min_size >= 1 /\ Len(stack) >= 3

\* C2 as stated: for every input that meets the preconditions, rect_min_size = 0
\* included, the top-level call eventually returns.
C2_AlwaysCompletes == <>(pc = "done")

\* C2 amended: the top-level call returns when rect_min_size >= 1 or the
\* top-level rectangle has x1 = x2 or y1 = y2; with rect_min_size = 0 and a
\* rectangle of positive extents it never returns.
C2_CompletesIff ==
    /\ (pc = "run" /\ (rect_min_size >= 1 \/ Degenerate(stack[1])))
          ~> (pc = "done")
    /\ [](pc = "done" => (rect_min_size >= 1 \/ Degenerate(log[1])))

C2_Witness == pc = "done" /\ Len(log) >= 5

\* C3: every call receives a rectangle inside the buffer, every byte index
\* its body reads or writes lies in [0, buffer_width * height * 4), no call
\* faults, and the length of output stays that of input.
C3_InBounds ==
    /\ pc # "panic"
    /\ DOMAIN output = DOMAIN input
    /\ \A i \in 1 .. Len(stack) :
          /\ InBuffer(stack[i])
          /\ ReadSet(stack[i]) \subseteq 0 .. (BufLen(input) - 1)
          /\ WriteSet(stack[i], Average(input, stack[i]))
                \subseteq 0 .. (BufLen(output) - 1)

C3_Witness ==
    \E i \in 1 .. Len(log) :
        /\ log[i].path # <<>> /\ log[i].drew
        /\ log[i].x2 = buffer_width - 1 /\ log[i].y2 = Height - 1

(* history helpers *)
BodyStep == Len(log') = Len(log) + 1
Last(sq) == sq[Len(sq)]
ChannelSum(e) == e.avg[1] + e.avg[2] + e.avg[3]
Pixel(buf, x, y) ==
    LET i == (y * buffer_width + x) * BytesPerPixel
    IN <<buf[i], buf[i + 1], buf[i + 2], buf[i + 3]>>
Colour(avg) == <<avg[3], avg[2], avg[1], 255>>
Zero == <<0, 0, 0, 0>>
Pixels == {<<x, y>> : x \in 0 .. (buffer_width - 1), y \in 0 .. (Height - 1)}
\* the perimeter of a rectangle without its corner (x2, y2)
Edges(e) ==
    {<<x, y>> \in (e.x1 .. (e.x2 - 1)) \X {e.y1, e.y2} : TRUE}
        \cup {<<x, y>> \in {e.x1, e.x2} \X (e.y1 .. (e.y2 - 1)) : TRUE}
Perimeter(e) ==
    {<<x, y>> \in (e.x1 .. e.x2) \X {e.y1, e.y2} : TRUE}
        \cup {<<x, y>> \in {e.x1, e.x2} \X (e.y1 .. e.y2) : TRUE}

\* C4: a call writes to output iff the sum of its averaged channels is
\* strictly above color_threshold, a call whose sum is at most the threshold
\* leaves output unchanged, and when no call was above the threshold the
\* output is all zero when the top-level call has returned.
C4_StrictThreshold ==
    [][/\ BodyStep =>
            /\ Last(log').drew <=> ChannelSum(Last(log')) > color_threshold
            /\ ChannelSum(Last(log')) <= color_threshold => output' = output
       /\ (pc' = "done" /\ \A i \in DOMAIN log' :
                                ChannelSum(log'[i]) <= color_threshold)
            => \A i \in DOMAIN output' : output'[i] = 0]_vars

C4_Witness ==
    /\ pc = "done" /\ color_threshold = Threshold
    /\ \A i \in DOMAIN output : output[i] = 0
    /\ \E i \in DOMAIN log :
          ChannelSum(log[i]) = color_threshold /\ ~ Degenerate(log[i])

\* C5 as stated: right after the border step of a call above the threshold,
\* every pixel of the full perimeter, corners included, holds the call's
\* average colour with alpha 255.
C5_FullPerimeter ==
    [][(BodyStep /\ Last(log').drew) =>
         \A p \in Perimeter(Last(log')) :
            Pixel(output', p[1], p[2]) = Colour(Last(log').avg)]_vars

\* C5 amended: right after the border step of a call above the threshold,
\* every pixel on rows y1 and y2 for x in [x1, x2) and on columns x1 and x2
\* for y in [y1, y2) holds the call's average colour with alpha 255; this is
\* the perimeter without the corner (x2, y2), which the step leaves as it was.
C5_EdgesWithoutFarCorner ==
    [][(BodyStep /\ Last(log').drew) =>
         /\ \A p \in Edges(Last(log')) :
                Pixel(output', p[1], p[2]) = Colour(Last(log').avg)
         /\ Perimeter(Last(log')) \ Edges(Last(log'))
                = {<<Last(log').x2, Last(log').y2>>}
         /\ Pixel(output', Last(log').x2, Last(log').y2)
                = Pixel(output, Last(log').x2, Last(log').y2)]_vars

C5_Witness ==
    /\ log # <<>> /\ Last(log).drew
    /\ Last(log).x2 > Last(log).x1 + 1 /\ Last(log).y2 > Last(log).y1 + 1
    /\ stack # <<>> /\ Top.path = Last(log).path /\ Top.stage = 1

IsPrefix(s, t) == Len(s) <= Len(t) /\ SubSeq(t, 1, Len(s)) = s
\* the calls made by the call of path pa on the rectangle r
ChildOn(pa, r) ==
    {i \in DOMAIN log :
        /\ Len(log[i].path) = Len(pa) + 1 /\ IsPrefix(pa, log[i].path)
        /\ <<log[i].x1, log[i].y1, log[i].x2, log[i].y2>> = r}
\* the running call has made its four calls and is about to return
Returning == pc = "run" /\ stack # <<>> /\ Top.stage = 5 /\ ShouldSubdivide(Top)
TopLeft(f) == ChildOn(f.path, <<f.x1, f.y1, Mid(f.x1, f.x2), Mid(f.y1, f.y2)>>)
TopRight(f) == ChildOn(f.path, <<Mid(f.x1, f.x2), f.y1, f.x2, Mid(f.y1, f.y2)>>)
WriterAt(x, y) == writer[y * buffer_width + x]

\* C6 as stated: when top-left and top-right are both above the threshold,
\* both write column mid_x on rows [y1, mid_y), and when the parent returns
\* that column holds the colour written by the top-right sibling.
C6_SiblingColour ==
    Returning =>
        \A l \in TopLeft(Top), r \in TopRight(Top) :
            (log[l].drew /\ log[r].drew) =>
                \A y \in Top.y1 .. (Mid(Top.y1, Top.y2) - 1) :
                    /\ <<Mid(Top.x1, Top.x2), y>> \in Edges(log[l]) \cap Edges(log[r])
                    /\ Pixel(output, Mid(Top.x1, Top.x2), y) = Colour(log[r].avg)

\* C6 amended: when top-left and top-right are both above the threshold,
\* both write column mid_x on rows [y1, mid_y), and when the parent returns
\* each pixel of that column holds the colour written last in the fixed
\* order, which is that of the top-right sibling or of one of the calls
\* below it, never one of the top-left subtree: the top-right sibling's own
\* colour where no call below it drew over the pixel.
C6_LastInTopRightSubtree ==
    Returning =>
        \A l \in TopLeft(Top), r \in TopRight(Top) :
            (log[l].drew /\ log[r].drew) =>
                \A y \in Top.y1 .. (Mid(Top.y1, Top.y2) - 1) :
                    LET mx == Mid(Top.x1, Top.x2)
                        wi == WriterAt(mx, y)
                    IN /\ <<mx, y>> \in Edges(log[l]) \cap Edges(log[r])
                       /\ wi >= r
                       /\ IsPrefix(log[r].path, log[wi].path)
                       /\ Pixel(output, mx, y) = Colour(log[wi].avg)
                       /\ (~ \E d \in DOMAIN log :
                              /\ d # r /\ IsPrefix(log[r].path, log[d].path)
                              /\ log[d].drew /\ <<mx, y>> \in Edges(log[d]))
                            => wi = r

C6_Witness ==
    /\ Returning
    /\ \E l \in TopLeft(Top), r \in TopRight(Top) :
          /\ log[l].drew /\ log[r].drew
          /\ \E y \in Top.y1 .. (Mid(Top.y1, Top.y2) - 1) :
                /\ WriterAt(Mid(Top.x1, Top.x2), y) > r
                /\ Pixel(output, Mid(Top.x1, Top.x2), y) # Colour(log[r].avg)
          /\ log[l].avg # log[r].avg

\* C7: every output pixel is either as it was initialised (four zero bytes)
\* or has alpha 255; a pixel on no written border position of a call above
\* the threshold is still zero; and input is never modified.
C7_Frame ==
    [][pc # "start" =>
         /\ input' = input
         /\ \E drawn \in {UNION {Edges(log'[i]) : i \in {j \in DOMAIN log' : log'[j].drew}}} :
              \A p \in Pixels :
                /\ Pixel(output', p[1], p[2]) = Zero \/ Pixel(output', p[1], p[2])[4] = 255
                /\ p \notin drawn => Pixel(output', p[1], p[2]) = Zero]_vars

C7_Witness ==
    /\ pc = "done"
    /\ \E p \in Pixels : Pixel(output, p[1], p[2]) = Zero
    /\ \E p \in Pixels : Pixel(output, p[1], p[2])[4] = 255

\* the pixels [x1, x2) x [y1, y2) of a rectangle
Inside(e) == (e.x1 .. (e.x2 - 1)) \X (e.y1 .. (e.y2 - 1))
RECURSIVE Total(_, _)
Total(S, c) ==
    IF S = {} THEN 0
    ELSE LET p == CHOOSE q \in S : TRUE
         IN Pixel(input, p[1], p[2])[c] + Total(S \ {p}, c)
Mean(e, c) == Total(Inside(e), c) \div Cardinality(Inside(e))
Uniform(col) ==
    \A p \in Pixels : \A c \in 1 .. 3 : Pixel(input, p[1], p[2])[c] = col[c]

\* C8: every pixel written by a border step has byte0 = averaged blue,
\* byte1 = averaged green, byte2 = averaged red, byte3 = 255, the averages
\* being the truncated means of input bytes 2, 1, 0 over [x1,x2) x [y1,y2);
\* on an input of one colour (r, g, b) every written pixel is (b, g, r, 255).
C8_ByteOrder ==
    [][(BodyStep /\ Last(log').drew) =>
         \E mean \in {<<Mean(Last(log'), 3), Mean(Last(log'), 2),
                         Mean(Last(log'), 1), 255>>} :
            /\ \A p \in Edges(Last(log')) : Pixel(output', p[1], p[2]) = mean
            /\ \A col \in Palette :
                 Uniform(col) => mean = <<col[3], col[2], col[1], 255>>]_vars

C8_Witness ==
    /\ log # <<>> /\ Last(log).drew /\ Uniform(Bright)
    /\ \E p \in Pixels : Pixel(output, p[1], p[2]) = <<50, 100, 200, 255>>

\* C9: the averaging step on a rectangle with x1 = x2 or y1 = y2 samples no
\* pixel, does not fault, and yields the average (0, 0, 0).
C9_ZeroArea ==
    /\ (pc = "panic" => ~ Degenerate(Top))
    /\ \A i \in DOMAIN log :
          Degenerate(log[i]) =>
              /\ SampleIndices(log[i]) = <<>>
              /\ log[i].avg = <<0, 0, 0>>

C9_Witness ==
    \E i \in DOMAIN log : Degenerate(log[i]) /\ log[i].path # <<>>

\* C10: for every valid input each of the red, green and blue sums and the
\* pixel count stays at or below 2^32 - 1: no accumulator wraps or faults.
C10_NoOverflow ==
    loop.status # "idle" => (loop.status # "panic" /\ ~ loop.wrapped)

====
